---- MODULE Spec2Model ----
(***************************************************************************)
(* A model of the round-robin load balancer of src/main.go: the            *)
(* LoadBalancer object (port, roundRobinCount, servers), the Server        *)
(* interface with its SimpleServer implementation, and the request path    *)
(* ServeProxy -> GetNextAvailableServer -> Server.Serve, one step per      *)
(* access to shared state.  net/http runs every request handler in a       *)
(* goroutine of its own, and the handlers share the LoadBalancer without   *)
(* any lock, so "roundRobinCount++" is a load followed by a store.         *)
(***************************************************************************)
EXTENDS Integers, Sequences, FiniteSets

\* Width of the model's signed integer; Go's int (main.go:56) is 64 bits wide.
IntBits == 3

\* Longest server list handed to NewLoadBalancer.
MaxServers == 3

\* Consecutive forwarding failures after which a backend is to count as dead
\* (the documented default); the streak history counts no further.
Threshold == 3

\* The goroutines running the handler registered at main.go:96-98.
Handlers == {"h1", "h2"}

MaxInt == 2 ^ (IntBits - 1) - 1
MinInt == -(2 ^ (IntBits - 1))

\* Signed two's-complement wrap of an incremented int.
Wrap(v) == IF v > MaxInt THEN v - 2 ^ IntBits ELSE v

\* Go's % : the remainder truncated towards zero, with the dividend's sign.
GoRem(a, n) == IF a >= 0 THEN a % n ELSE -((-a) % n)

VARIABLES
    port,             \* LoadBalancer.port
    roundRobinCount,  \* LoadBalancer.roundRobinCount
    servers,          \* LoadBalancer.servers: the implementation of each element
    addr,             \* SimpleServer.addr of each element: which of the given URLs
    health,           \* what IsAlive() of an element that is not a SimpleServer reports
    pc,               \* each handler's position in ServeProxy / GetNextAvailableServer
    server,           \* GetNextAvailableServer's local "server" (an index, 0 = nil)
    sawAlive,         \* what server.IsAlive() returned for the current "server"
    tmp,              \* the value loaded by a roundRobinCount++ in progress
    faults,           \* how many leading forward attempts of the request fail in transport
    attempts,         \* Serve calls made for the request
    result,           \* what the client got: "none", "ok", "BadGateway"
    entry,            \* history: roundRobinCount when the call in progress began
    stable,           \* history: no liveness change since the call in progress began
    inspected,        \* history: IsAlive() inspections made by the call in progress
    window,           \* history: how the latest calls on an all-alive list ended
    streak,           \* history: the backend last forwarded to, and its run of failures
    calls             \* history: GetNextAvailableServer calls that have returned

prog == <<port, roundRobinCount, servers, addr, health, pc, server, sawAlive, tmp,
          faults, attempts, result>>
hist == <<entry, stable, inspected, window, streak, calls>>
vars == <<prog, hist>>

N == Len(servers)

Impls == {"SimpleServer", "OtherServer"}

\* SimpleServer.IsAlive returns true; any other implementation reports its health.
IsAlive(i) == IF servers[i] = "SimpleServer" THEN TRUE ELSE health[i]

AllAlive == \A i \in 1..N : IsAlive(i)
AliveSet == {i \in 1..N : IsAlive(i)}

Resting == {"idle", "done", "panic_divide", "panic_index"}

TypeOK ==
    /\ port = "8000"
    /\ roundRobinCount \in MinInt..MaxInt
    /\ N \in 0..MaxServers
    /\ \A i \in 1..N : servers[i] \in Impls
    /\ addr \in [1..N -> 1..MaxServers]
    /\ health \in [1..N -> BOOLEAN]
    /\ pc \in [Handlers -> Resting \cup {"L72", "L73", "L76_load", "L76_store",
                                         "L78_load", "L78_store", "L85"}]
    /\ server \in [Handlers -> 0..N]
    /\ sawAlive \in [Handlers -> BOOLEAN]
    /\ tmp \in [Handlers -> MinInt..MaxInt]
    /\ faults \in [Handlers -> 0..MaxServers]
    /\ attempts \in [Handlers -> 0..1]
    /\ result \in [Handlers -> {"none", "ok", "BadGateway"}]
    /\ entry \in [Handlers -> MinInt..MaxInt]
    /\ stable \in [Handlers -> BOOLEAN]
    /\ inspected \in [Handlers -> 0..(MaxServers + 1)]
    /\ Len(window) <= N
    /\ \A k \in 1..Len(window) : window[k].c \in MinInt..MaxInt /\ window[k].s \in 0..N
    /\ streak.backend \in 0..N /\ streak.failures \in 0..Threshold
    /\ calls \in MinInt..MaxInt

\* main (90-95) and NewLoadBalancer (61-66): any list of servers is accepted, the
\* cursor starts at the zero value.  A list is all SimpleServer or all of another
\* implementation; a mixed list behaves as the latter with some health kept true.
InitProg ==
    /\ port = "8000"
    /\ roundRobinCount = 0
    /\ \E n \in 0..MaxServers, impl \in Impls :
          /\ servers = [i \in 1..n |-> impl]
          /\ addr = [i \in 1..n |-> i]
          /\ IF impl = "SimpleServer"
                THEN health = [i \in 1..n |-> TRUE]
                ELSE health \in [1..n -> BOOLEAN]
    /\ pc = [p \in Handlers |-> "idle"]
    /\ server = [p \in Handlers |-> 0]
    /\ sawAlive = [p \in Handlers |-> FALSE]
    /\ tmp = [p \in Handlers |-> 0]
    /\ faults = [p \in Handlers |-> 0]
    /\ attempts = [p \in Handlers |-> 0]
    /\ result = [p \in Handlers |-> "none"]

InitHist ==
    /\ entry = [p \in Handlers |-> 0]
    /\ stable = [p \in Handlers |-> TRUE]
    /\ inspected = [p \in Handlers |-> 0]
    /\ window = <<>>
    /\ streak = [backend |-> 0, failures |-> 0]
    /\ calls = 0

Init == InitProg /\ InitHist

\* ServeProxy is entered for a new request (83-84); a handler that panicked was
\* recovered by net/http and its goroutine serves again.
StartRequest(p) ==
    /\ pc[p] \in Resting
    /\ pc' = [pc EXCEPT ![p] = "L72"]
    /\ server' = [server EXCEPT ![p] = 0]
    /\ sawAlive' = [sawAlive EXCEPT ![p] = FALSE]
    /\ tmp' = [tmp EXCEPT ![p] = 0]
    /\ faults' = [faults EXCEPT ![p] = 0]
    /\ attempts' = [attempts EXCEPT ![p] = 0]
    /\ result' = [result EXCEPT ![p] = "none"]
    /\ UNCHANGED <<port, addr, roundRobinCount, servers, health>>

\* Line 72: server = lb.servers[lb.roundRobinCount % len(lb.servers)].
\* The modulo by zero and the index out of range are run-time panics.
SelectServer(p) ==
    /\ pc[p] = "L72"
    /\ IF N = 0
          THEN /\ pc' = [pc EXCEPT ![p] = "panic_divide"]
               /\ UNCHANGED server
          ELSE IF GoRem(roundRobinCount, N) \notin 0..(N - 1)
                  THEN /\ pc' = [pc EXCEPT ![p] = "panic_index"]
                       /\ UNCHANGED server
                  ELSE /\ pc' = [pc EXCEPT ![p] = "L73"]
                       /\ server' = [server EXCEPT ![p] = GoRem(roundRobinCount, N) + 1]
    /\ sawAlive' = [sawAlive EXCEPT ![p] = FALSE]
    /\ UNCHANGED <<port, addr, roundRobinCount, servers, health, tmp, faults, attempts, result>>

\* Lines 73-75 with the test inverted: the loop is left on a server that is not alive.
CheckAliveInverted(p) ==
    /\ pc[p] = "L73"
    /\ sawAlive' = [sawAlive EXCEPT ![p] = IsAlive(server[p])]
    /\ pc' = [pc EXCEPT ![p] = IF ~IsAlive(server[p]) THEN "L78_load" ELSE "L76_load"]
    /\ UNCHANGED <<port, addr, roundRobinCount, servers, health, server, tmp, faults,
                   attempts, result>>

\* Lines 73-75: if server.IsAlive() { break }.
CheckAlive(p) ==
    /\ pc[p] = "L73"
    /\ sawAlive' = [sawAlive EXCEPT ![p] = IsAlive(server[p])]
    /\ pc' = [pc EXCEPT ![p] = IF IsAlive(server[p]) THEN "L78_load" ELSE "L76_load"]
    /\ UNCHANGED <<port, addr, roundRobinCount, servers, health, server, tmp, faults,
                   attempts, result>>

\* Line 76, lb.roundRobinCount++ inside the loop: the load.
SkipLoad(p) ==
    /\ pc[p] = "L76_load"
    /\ tmp' = [tmp EXCEPT ![p] = roundRobinCount]
    /\ pc' = [pc EXCEPT ![p] = "L76_store"]
    /\ UNCHANGED <<port, addr, roundRobinCount, servers, health, server, sawAlive, faults,
                   attempts, result>>

\* Line 76: the store, then back to the head of the loop.
SkipStore(p) ==
    /\ pc[p] = "L76_store"
    /\ roundRobinCount' = Wrap(tmp[p] + 1)
    /\ tmp' = [tmp EXCEPT ![p] = 0]
    /\ pc' = [pc EXCEPT ![p] = "L72"]
    /\ UNCHANGED <<port, addr, servers, health, server, sawAlive, faults, attempts, result>>

\* Line 78, lb.roundRobinCount++ after the loop: the load.
AdvanceLoad(p) ==
    /\ pc[p] = "L78_load"
    /\ tmp' = [tmp EXCEPT ![p] = roundRobinCount]
    /\ pc' = [pc EXCEPT ![p] = "L78_store"]
    /\ UNCHANGED <<port, addr, roundRobinCount, servers, health, server, sawAlive, faults,
                   attempts, result>>

\* Line 78: the store; line 79 returns server to ServeProxy (84).
AdvanceStore(p) ==
    /\ pc[p] = "L78_store"
    /\ roundRobinCount' = Wrap(tmp[p] + 1)
    /\ tmp' = [tmp EXCEPT ![p] = 0]
    /\ pc' = [pc EXCEPT ![p] = "L85"]
    /\ UNCHANGED <<port, addr, servers, health, server, sawAlive, faults, attempts, result>>

\* Lines 85-86 with a dispatch path that marks the backend dead when the forward
\* fails.
ForwardMarkingDead(p) ==
    /\ pc[p] = "L85"
    /\ \E f \in 0..MaxServers :
          /\ faults' = [faults EXCEPT ![p] = f]
          /\ result' = [result EXCEPT ![p] = IF f >= 1 THEN "BadGateway" ELSE "ok"]
          /\ health' = [health EXCEPT ![server[p]] = @ /\ f = 0]
    /\ attempts' = [attempts EXCEPT ![p] = attempts[p] + 1]
    /\ pc' = [pc EXCEPT ![p] = "done"]
    /\ UNCHANGED <<port, addr, roundRobinCount, servers, server, sawAlive, tmp>>

\* Lines 85-86: targetServer.Serve(rw, r), once, and ServeProxy returns.  The
\* environment decides how many leading forward attempts of this request fail at
\* transport level (f); a failed forward is answered by the reverse proxy itself.
Forward(p) ==
    /\ pc[p] = "L85"
    /\ \E f \in 0..MaxServers :
          /\ faults' = [faults EXCEPT ![p] = f]
          /\ result' = [result EXCEPT ![p] = IF f >= 1 THEN "BadGateway" ELSE "ok"]
    /\ attempts' = [attempts EXCEPT ![p] = attempts[p] + 1]
    /\ pc' = [pc EXCEPT ![p] = "done"]
    /\ UNCHANGED <<port, addr, roundRobinCount, servers, health, server, sawAlive, tmp>>

\* A server that is not a SimpleServer changes what its IsAlive() reports.
FlipHealth(i) ==
    /\ servers[i] # "SimpleServer"
    /\ health' = [health EXCEPT ![i] = ~health[i]]
    /\ UNCHANGED <<port, addr, roundRobinCount, servers, pc, server, sawAlive, tmp, faults,
                   attempts, result>>

Next ==
    \/ \E p \in Handlers : StartRequest(p) /\ UNCHANGED hist
    \/ \E p \in Handlers : SelectServer(p) /\ UNCHANGED hist
    \/ \E p \in Handlers : CheckAlive(p) /\ UNCHANGED hist
    \/ \E p \in Handlers : SkipLoad(p) /\ UNCHANGED hist
    \/ \E p \in Handlers : SkipStore(p) /\ UNCHANGED hist
    \/ \E p \in Handlers : AdvanceLoad(p) /\ UNCHANGED hist
    \/ \E p \in Handlers : AdvanceStore(p) /\ UNCHANGED hist
    \/ \E p \in Handlers : Forward(p) /\ UNCHANGED hist
    \/ \E i \in 1..N : FlipHealth(i) /\ UNCHANGED hist

\* Any number of requests handled concurrently.
Spec == Init /\ [][Next]_vars

(***************************************************************************)
(* History variables.  They record what the program did and are read by    *)
(* no action of the program; each specification below runs the same        *)
(* actions and keeps the history its properties are stated over.           *)
(***************************************************************************)

Min(a, b) == IF a <= b THEN a ELSE b

Panicked == {"panic_divide", "panic_index"}

\* The step of handler p ends a GetNextAvailableServer call: by the return of
\* line 79 or by a panic at line 72.
EndsCall(p) == pc[p] \notin Resting /\ pc'[p] \in Panicked \cup {"L85"}

\* How the call ended: the server returned, or 0 for a panic.
Outcome(p) == IF pc'[p] = "L85" THEN server[p] ELSE 0

\* The latest calls (at most N of them) that ran from entry to end on a list
\* whose servers were all alive: the cursor at entry and the outcome of each.
WindowAfter(p) ==
    IF N >= 1 /\ stable[p] /\ AllAlive
       THEN LET w == Append(window, [c |-> entry[p], s |-> Outcome(p)])
            IN  IF Len(w) > N THEN Tail(w) ELSE w
       ELSE <<>>

\* The history of one handler's call: the cursor at entry, the liveness changes
\* and the inspections during it, and the window its end extends.
CallHist(p) ==
    /\ entry' = [entry EXCEPT ![p] = IF pc[p] \in Resting THEN roundRobinCount ELSE @]
    /\ stable' = [stable EXCEPT ![p] = IF pc[p] \in Resting THEN TRUE ELSE @]
    /\ inspected' = [inspected EXCEPT ![p] =
                        IF pc[p] \in Resting THEN 0
                        ELSE IF pc[p] = "L73" THEN Min(@ + 1, MaxServers + 1)
                        ELSE @]
    /\ window' = IF EndsCall(p) THEN WindowAfter(p) ELSE window
    /\ UNCHANGED <<streak, calls>>

\* A liveness change is seen by every call in progress and ends the window.
FlipHist ==
    /\ stable' = [p \in Handlers |-> FALSE]
    /\ window' = <<>>
    /\ UNCHANGED <<entry, inspected, streak, calls>>

\* Requests handled one after the other: a single handler goroutine.
SeqHandlers == {"h1"}

NextSeq ==
    \/ \E p \in SeqHandlers : StartRequest(p) /\ CallHist(p)
    \/ \E p \in SeqHandlers : SelectServer(p) /\ CallHist(p)
    \/ \E p \in SeqHandlers : CheckAlive(p) /\ CallHist(p)
    \/ \E p \in SeqHandlers : SkipLoad(p) /\ CallHist(p)
    \/ \E p \in SeqHandlers : SkipStore(p) /\ CallHist(p)
    \/ \E p \in SeqHandlers : AdvanceLoad(p) /\ CallHist(p)
    \/ \E p \in SeqHandlers : AdvanceStore(p) /\ CallHist(p)
    \/ \E p \in SeqHandlers : Forward(p) /\ CallHist(p)
    \/ \E i \in 1..N : FlipHealth(i) /\ FlipHist

SpecSeq == Init /\ [][NextSeq]_vars

\* The history of calls returned, counted as the cursor counts (in an int).
ReturnHist(p) ==
    /\ calls' = IF pc'[p] = "L85" THEN Wrap(calls + 1) ELSE calls
    /\ UNCHANGED <<entry, stable, inspected, window, streak>>

NextCalls ==
    \/ \E p \in Handlers : StartRequest(p) /\ UNCHANGED hist
    \/ \E p \in Handlers : SelectServer(p) /\ UNCHANGED hist
    \/ \E p \in Handlers : CheckAlive(p) /\ UNCHANGED hist
    \/ \E p \in Handlers : SkipLoad(p) /\ UNCHANGED hist
    \/ \E p \in Handlers : SkipStore(p) /\ UNCHANGED hist
    \/ \E p \in Handlers : AdvanceLoad(p) /\ UNCHANGED hist
    \/ \E p \in Handlers : AdvanceStore(p) /\ ReturnHist(p)
    \/ \E p \in Handlers : Forward(p) /\ UNCHANGED hist
    \/ \E i \in 1..N : FlipHealth(i) /\ UNCHANGED hist

\* Concurrent requests, with the count of the calls that returned.
SpecCalls == Init /\ [][NextCalls]_vars

\* The history of forwards: the backend forwarded to and the number of forwards
\* to it, in a row, that failed at transport level.
ForwardHist(p) ==
    /\ streak' = [backend  |-> server[p],
                  failures |-> IF result'[p] = "ok" THEN 0
                               ELSE IF streak.backend = server[p]
                                       THEN Min(streak.failures + 1, Threshold)
                                       ELSE 1]
    /\ UNCHANGED <<entry, stable, inspected, window, calls>>

NextHealth ==
    \/ \E p \in Handlers : StartRequest(p) /\ UNCHANGED hist
    \/ \E p \in Handlers : SelectServer(p) /\ UNCHANGED hist
    \/ \E p \in Handlers : CheckAlive(p) /\ UNCHANGED hist
    \/ \E p \in Handlers : SkipLoad(p) /\ UNCHANGED hist
    \/ \E p \in Handlers : SkipStore(p) /\ UNCHANGED hist
    \/ \E p \in Handlers : AdvanceLoad(p) /\ UNCHANGED hist
    \/ \E p \in Handlers : AdvanceStore(p) /\ UNCHANGED hist
    \/ \E p \in Handlers : Forward(p) /\ ForwardHist(p)
    \/ \E i \in 1..N : FlipHealth(i) /\ UNCHANGED hist

\* Concurrent requests, with the run of failed forwards.
SpecHealth == Init /\ [][NextHealth]_vars

(***************************************************************************)
(* Properties.                                                             *)
(***************************************************************************)

AllSimple == \A i \in 1..N : servers[i] = "SimpleServer"

\* Every call of the window returned a server, and no two the same one.
Covers(w) ==
    /\ \A k \in 1..Len(w) : w[k].s # 0
    /\ \A j, k \in 1..Len(w) : j # k => w[j].s # w[k].s

\* C1: on a non-empty list whose servers are all alive, N consecutive sequential
\* calls that begin with any roundRobinCount >= 0 return N pairwise distinct servers.
C1_Coverage ==
    (window # <<>> /\ window[1].c >= 0) => Covers(window)

\* The part of C1 the code satisfies: the same, when the last of the N calls still
\* begins with a cursor that has not wrapped (c + N - 1 <= MaxInt).
C1_CoverageBeforeWrap ==
    (window # <<>> /\ window[1].c >= 0 /\ window[1].c + N - 1 <= MaxInt)
        => Covers(window)

\* N calls in a row have returned on a list of MaxServers servers, all alive.
C1_FullWindow ==
    Len(window) = N /\ N = MaxServers /\ window[1].c > 0 /\ Covers(window)

\* C2: with no server alive, a call ends after at most len(servers) inspections.
C2_BoundedWhenAllDead ==
    \A p \in Handlers :
        (N >= 1 /\ AliveSet = {} /\ stable[p] /\ pc[p] \notin Resting)
            => inspected[p] <= N

\* C3: no increment of the cursor is lost: whenever no call is in progress on a
\* list of always-alive servers, roundRobinCount is the number of calls returned.
C3_NoLostIncrement ==
    (N >= 1 /\ AllSimple /\ \A p \in Handlers : pc[p] \in {"idle", "done"})
        => roundRobinCount = calls

\* C4: the index roundRobinCount % len(servers) that line 72 uses is in
\* 0..len(servers)-1 in every reachable state, after a wrap of the cursor too.
C4_IndexInRange ==
    \A p \in Handlers :
        (pc[p] = "L72" /\ N >= 1) => GoRem(roundRobinCount, N) \in 0..(N - 1)

\* C5: with exactly one server alive and no liveness change during the call, a
\* sequential call that begins with any roundRobinCount >= 0 returns that server.
C5_OnlyAliveReturned ==
    \A p \in Handlers :
        (N >= 1 /\ Cardinality(AliveSet) = 1 /\ stable[p] /\ entry[p] >= 0)
            => /\ pc[p] \notin Panicked
               /\ pc[p] \in {"L85", "done"} => server[p] \in AliveSet

\* The part of C5 the code satisfies: the same, when the cursor cannot wrap while
\* the call skips the dead servers (c + N - 1 <= MaxInt).
C5_OnlyAliveBeforeWrap ==
    \A p \in Handlers :
        (N >= 1 /\ Cardinality(AliveSet) = 1 /\ stable[p] /\ entry[p] >= 0
              /\ entry[p] + N - 1 <= MaxInt)
            => /\ pc[p] \notin Panicked
               /\ pc[p] \in {"L85", "done"} => server[p] \in AliveSet

\* A call has skipped N - 1 dead servers and returned the only one alive.
C5_SkippedToOnlyAlive ==
    \E p \in Handlers :
        /\ N = MaxServers /\ Cardinality(AliveSet) = 1 /\ stable[p]
        /\ pc[p] = "L85" /\ inspected[p] = N /\ server[p] \in AliveSet

\* C6: the server a call returns, and ServeProxy forwards to, is a server of the
\* list for which that same call saw IsAlive() return true.
C6_ReturnsOnlyObservedAlive ==
    \A p \in Handlers :
        pc[p] \in {"L78_load", "L78_store", "L85", "done"}
            => server[p] \in 1..N /\ sawAlive[p]

\* Two concurrent calls have both returned the same server, past a dead one.
C6_Witness ==
    \E p, q \in Handlers :
        /\ p # q
        /\ pc[p] = "L85" /\ pc[q] = "done"
        /\ server[p] = server[q] /\ sawAlive[p] /\ sawAlive[q]
        /\ \E i \in 1..N : ~IsAlive(i)

\* C7: over 3 backends, a request whose first two forwards fail in transport and
\* whose third succeeds ends with that response after exactly 3 forward attempts.
C7_RetryUntilSuccess ==
    \A p \in Handlers :
        (pc[p] = "done" /\ N = 3 /\ faults[p] = 2)
            => attempts[p] = 3 /\ result[p] = "ok"

\* C8: over 3 backends whose forwards all fail in transport, a request makes
\* exactly 3 forward attempts and then fails with UpstreamUnavailable.
C8_ExhaustionAfterThree ==
    \A p \in Handlers :
        (pc[p] = "done" /\ N = 3 /\ faults[p] = 3)
            => attempts[p] = 3 /\ result[p] = "UpstreamUnavailable"

\* C9: after Threshold forwarding failures in a row on a backend, its IsAlive()
\* is false (and a successful forward makes it true again).
C9_DeadAfterThreshold ==
    (streak.backend \in 1..N /\ servers[streak.backend] = "SimpleServer")
        => /\ streak.failures >= Threshold => ~IsAlive(streak.backend)
           /\ streak.failures = 0 => IsAlive(streak.backend)

\* C10: a LoadBalancer that serves a request has a non-empty server list, so the
\* modulo of line 72 never divides by zero.
C10_NeverEmptyWhileServing ==
    \A p \in Handlers :
        /\ pc[p] # "idle" => N >= 1
        /\ pc[p] # "panic_divide"

\* C11: roundRobinCount never decreases from one state to the next, under any
\* interleaving of concurrent calls, as long as the int has not wrapped (the
\* cursor starts at 0, so it is >= 0 before and after the step).
C11_Monotonic ==
    [][(roundRobinCount >= 0 /\ roundRobinCount' >= 0)
          => roundRobinCount' >= roundRobinCount]_vars

\* The server a sequential call entered with cursor c has to return: the first
\* alive one at the positions c, c + 1, ... of the list, taken modulo its length.
FirstAliveFrom(c) ==
    LET j == CHOOSE k \in 0..(N - 1) :
                 /\ IsAlive(((c + k) % N) + 1)
                 /\ \A m \in 0..(k - 1) : ~IsAlive(((c + m) % N) + 1)
    IN  ((c + j) % N) + 1

\* C12: with liveness fixed during a sequential call and a server alive, a call
\* entered with roundRobinCount = c >= 0 returns servers[(c + j) mod N] for the
\* smallest j >= 0 for which that server is alive.
C12_FirstAliveForward ==
    \A p \in Handlers :
        (N >= 1 /\ AliveSet # {} /\ stable[p] /\ entry[p] >= 0)
            => /\ pc[p] \notin Panicked
               /\ pc[p] \in {"L85", "done"} => server[p] = FirstAliveFrom(entry[p])

\* The part of C12 the code satisfies: the same, when the cursor cannot wrap while
\* the call skips the dead servers (c + N - 1 <= MaxInt).
C12_FirstAliveBeforeWrap ==
    \A p \in Handlers :
        (N >= 1 /\ AliveSet # {} /\ stable[p] /\ entry[p] >= 0
              /\ entry[p] + N - 1 <= MaxInt)
            => /\ pc[p] \notin Panicked
               /\ pc[p] \in {"L85", "done"} => server[p] = FirstAliveFrom(entry[p])

\* A step of handler p inside a request it has begun.
Run(p) ==
    /\ \/ SelectServer(p) \/ CheckAlive(p) \/ SkipLoad(p) \/ SkipStore(p)
       \/ AdvanceLoad(p) \/ AdvanceStore(p) \/ Forward(p)
    /\ UNCHANGED hist

\* Concurrent requests under the Go scheduler: a goroutine that can run is run
\* in the end.  Whether a further request arrives is up to the clients.
SpecFair == Spec /\ \A p \in Handlers : WF_vars(Run(p))

\* C13: if a server is alive and stays alive, every call in progress returns in
\* the end, under any weakly fair interleaving of the concurrent calls.
C13_EveryCallReturns ==
    \A i \in 1..MaxServers : \A p \in Handlers :
        [](i \in AliveSet) => ((pc[p] = "L72") ~> (pc[p] = "L85"))

\* A call need not even end: counting a panic of the call as an ending too,
\* the other calls can still keep the cursor on dead positions for ever.
C13_EveryCallEnds ==
    \A i \in 1..MaxServers : \A p \in Handlers :
        [](i \in AliveSet)
            => ((pc[p] = "L72") ~> (pc[p] \in {"L85"} \cup Panicked))

\* C14: a step of the dispatch path (GetNextAvailableServer, ServeProxy) leaves
\* the servers sequence, every server's address, every server's alive state and
\* the port as they were; of the LoadBalancer's fields only roundRobinCount is
\* written.
C14_DispatchFrame ==
    [][pc' # pc => /\ servers' = servers
                   /\ addr' = addr
                   /\ health' = health
                   /\ port' = port]_vars

\* A request went through selection, skipping, and a failed forward, and the
\* cursor has moved while the rest is as constructed.
C14_Witness ==
    \E p \in Handlers :
        /\ pc[p] = "done" /\ result[p] = "BadGateway"
        /\ roundRobinCount >= 2
        /\ N = MaxServers /\ AliveSet # 1..N /\ IsAlive(server[p])
        /\ port = "8000" /\ addr = [i \in 1..N |-> i]

\* C15: a sequential call that began with the cursor at c and returns the
\* server at list position i, after inspecting d dead servers, leaves the cursor
\* at c + d + 1, which is i + 1 modulo the length of the list: the next call
\* starts at the successor of the server returned.  (inspected = d + 1, and
\* server is the position counted from 1.)
C15_CursorAfterSelection ==
    \A p \in Handlers :
        (pc[p] = "L85" /\ inspected[p] \in 1..MaxServers)
            => /\ roundRobinCount = Wrap(entry[p] + inspected[p])
               /\ GoRem(roundRobinCount, N) = server[p] % N

\* The same for the calls whose increments stay below the largest int.
C15_CursorBeforeWrap ==
    \A p \in Handlers :
        (/\ pc[p] = "L85" /\ inspected[p] \in 1..MaxServers
         /\ entry[p] >= 0 /\ entry[p] + inspected[p] <= MaxInt)
            => /\ roundRobinCount = entry[p] + inspected[p]
               /\ GoRem(roundRobinCount, N) = server[p] % N

\* Serve is called at most once per invocation of ServeProxy, only after the
\* selection has returned, and on the server it returned.
C16_AtMostOneForward ==
    \A p \in Handlers :
        /\ attempts[p] <= 1
        /\ attempts[p] = 1 => (pc[p] = "done" /\ server[p] \in 1..N /\ sawAlive[p])
        /\ pc[p] = "done" => attempts[p] = 1

\* C16: every invocation of ServeProxy makes one GetNextAvailableServer call and
\* then exactly one Serve call, on the server the selection returned: Serve is not
\* called before the selection has returned, and an invocation that has ended has
\* made its one Serve call.
C16_OneSelectionOneForward ==
    /\ C16_AtMostOneForward
    /\ \A p \in Handlers : pc[p] \in (Resting \ {"idle"}) => attempts[p] = 1

====
